---- MODULE Spec2Model ----
(***************************************************************************)
(* Nova: AI Writing Coach (src/app.py).                                    *)
(*                                                                         *)
(* The model has three parts:                                              *)
(*   - the citation analyzer detect_citations, with Python's re.findall    *)
(*     modelled as a backtracking matcher over character sequences;        *)
(*   - the two dispatchers generate_socratic_questions and                 *)
(*     analyze_citations_with_ai, with the Completion Service as a         *)
(*     nondeterministic outcome (a response or a raised exception);        *)
(*   - the Streamlit script: every script run is one action on the         *)
(*     session state, ending with the display step.                        *)
(*                                                                         *)
(* Draft texts are sequences of one-character strings.  Text produced by   *)
(* the Completion Service (and by json.dumps) is a sequence of JSON        *)
(* lexemes, which json.loads is modelled to parse.                         *)
(***************************************************************************)
EXTENDS Integers, Sequences, FiniteSets, TLC

VARIABLES
    text,       \* SpecCite: the draft text handed to detect_citations
    report,     \* SpecCite: the CitationReport of text
    api_key,    \* openai.api_key, as read from the environment
    session,    \* st.session_state: a function from key names to values
    lastRun,    \* the inputs of the latest script run (button, draft, outcomes)
    calls,      \* Completion Service calls attempted during the latest run
    shown       \* what the display step of the latest run rendered

vars == <<text, report, api_key, session, lastRun, calls, shown>>

-----------------------------------------------------------------------------
(* Characters and character classes of Python's re for str patterns.       *)

AsciiLetters ==
    {"a","b","c","d","e","f","g","h","i","j","k","l","m","n","o","p","q","r",
     "s","t","u","v","w","x","y","z",
     "A","B","C","D","E","F","G","H","I","J","K","L","M","N","O","P","Q","R",
     "S","T","U","V","W","X","Y","Z"}

Digits == {"0","1","2","3","4","5","6","7","8","9"}

Whitespace == {" ", "\t", "\n", "\r"}

-----------------------------------------------------------------------------
(* Regular expressions as syntax trees.                                     *)

Lit(c)      == [op |-> "set", cs |-> {c}]
Class(S)    == [op |-> "set", cs |-> S]
NotClass(S) == [op |-> "nset", cs |-> S]
Cat(rs)     == [op |-> "cat", items |-> rs]
Star(r)     == [op |-> "star", item |-> r]
Plus(r)     == [op |-> "plus", item |-> r]
Opt(r)      == [op |-> "opt", item |-> r]
Rep(r, n)   == [op |-> "rep", item |-> r, n |-> n]

(* Ends(re, s, i): the positions just after each way re can match s from   *)
(* position i, in the order a backtracking matcher tries them (greedy       *)
(* quantifiers first).  The head of the sequence is the match re.match      *)
(* reports.                                                                 *)
RECURSIVE Ends(_, _, _)
RECURSIVE EndsFromAll(_, _, _)
EndsFromAll(re, s, starts) ==
    IF starts = << >> THEN << >>
    ELSE Ends(re, s, Head(starts)) \o EndsFromAll(re, s, Tail(starts))

Ends(re, s, i) ==
    CASE re.op = "set" ->
            IF i <= Len(s) /\ s[i] \in re.cs THEN <<i + 1>> ELSE << >>
      [] re.op = "nset" ->
            IF i <= Len(s) /\ s[i] \notin re.cs THEN <<i + 1>> ELSE << >>
      [] re.op = "cat" ->
            IF re.items = << >> THEN <<i>>
            ELSE EndsFromAll(Cat(Tail(re.items)), s, Ends(Head(re.items), s, i))
      [] re.op = "star" ->
            EndsFromAll(re, s, SelectSeq(Ends(re.item, s, i), LAMBDA e : e > i))
                \o <<i>>
      [] re.op = "plus" ->
            EndsFromAll(Star(re.item), s, Ends(re.item, s, i))
      [] re.op = "opt" ->
            Ends(re.item, s, i) \o <<i>>
      [] re.op = "rep" ->
            IF re.n = 0 THEN <<i>>
            ELSE EndsFromAll(Rep(re.item, re.n - 1), s, Ends(re.item, s, i))

(* re.findall for a pattern without capturing groups: the matched           *)
(* substrings, scanning left to right, non-overlapping.                     *)
RECURSIVE FindAllFrom(_, _, _)
FindAllFrom(re, s, pos) ==
    IF pos > Len(s) THEN << >>
    ELSE LET es == Ends(re, s, pos)
         IN  IF es = << >> THEN FindAllFrom(re, s, pos + 1)
             ELSE IF es[1] = pos THEN FindAllFrom(re, s, pos + 1)
             ELSE <<SubSeq(s, pos, es[1] - 1)>> \o FindAllFrom(re, s, es[1])

findall(re, s) == FindAllFrom(re, s, 1)

(* Python's  sub in s  for strings.                                         *)
Contains(s, sub) ==
    \E i \in 1..(Len(s) - Len(sub) + 1) : SubSeq(s, i, i + Len(sub) - 1) = sub

(* str.split() without arguments: the maximal runs of non-whitespace.      *)
WordCount(s) ==
    Cardinality({i \in 1..Len(s) :
        s[i] \notin Whitespace /\ (i = 1 \/ s[i - 1] \in Whitespace)})

(* The bug  user_input.strip(" ") : only blanks are stripped, so a draft of *)
(* newlines or tabs is not seen as empty.                                   *)
strip_spaces_only(s) ==
    LET keep == {i \in 1..Len(s) : s[i] # " "}
    IN  IF keep = {} THEN << >>
        ELSE SubSeq(s, CHOOSE i \in keep : \A j \in keep : i <= j,
                       CHOOSE i \in keep : \A j \in keep : i >= j)

(* str.strip() without arguments.                                           *)
strip(s) ==
    LET keep == {i \in 1..Len(s) : s[i] \notin Whitespace}
    IN  IF keep = {} THEN << >>
        ELSE SubSeq(s, CHOOSE i \in keep : \A j \in keep : i <= j,
                       CHOOSE i \in keep : \A j \in keep : i >= j)

-----------------------------------------------------------------------------
(* detect_citations                                                         *)

YearDigits == 4

\* r'\([A-Za-z]+(?:,\s*[A-Za-z]+)*,\s*\d{4}\)'
apa_pattern ==
    Cat(<<Lit("("), Plus(Class(AsciiLetters)),
          Star(Cat(<<Lit(","), Star(Class(Whitespace)), Plus(Class(AsciiLetters))>>)),
          Lit(","), Star(Class(Whitespace)), Rep(Class(Digits), YearDigits),
          Lit(")")>>)

\* r'\([A-Za-z]+\s+\d+\)'
mla_pattern ==
    Cat(<<Lit("("), Plus(Class(AsciiLetters)), Plus(Class(Whitespace)),
          Plus(Class(Digits)), Lit(")")>>)

(* The bug  r'https?://[^\s]*' : a bare scheme counts as a URL.            *)
url_pattern_allows_empty ==
    Cat(<<Lit("h"), Lit("t"), Lit("t"), Lit("p"), Opt(Lit("s")),
          Lit(":"), Lit("/"), Lit("/"), Star(NotClass(Whitespace))>>)

\* r'https?://[^\s]+'
url_pattern ==
    Cat(<<Lit("h"), Lit("t"), Lit("t"), Lit("p"), Opt(Lit("s")),
          Lit(":"), Lit("/"), Lit("/"), Plus(NotClass(Whitespace))>>)

RecentMarker == <<"2", "0", "2">>

Max(a, b) == IF a >= b THEN a ELSE b

DensityScale == 1000

has_recent_sources_of(apa_citations) ==
    \E k \in 1..Len(apa_citations) : Contains(apa_citations[k], RecentMarker)

(* The bug of counting the URLs into total_citations.                       *)
detect_citations_counts_urls(t) ==
    LET apa_citations == findall(apa_pattern, t)
        mla_citations == findall(mla_pattern, t)
        urls          == findall(url_pattern, t)
    IN  [apa_count          |-> Len(apa_citations),
         mla_count          |-> Len(mla_citations),
         url_count          |-> Len(urls),
         has_recent_sources |-> has_recent_sources_of(apa_citations),
         citation_density   |->
             [num |-> (Len(apa_citations) + Len(mla_citations)) * DensityScale,
              den |-> Max(WordCount(t), 1)],
         total_citations    |-> Len(apa_citations) + Len(mla_citations) + Len(urls)]

(* citation_density is a float in the code; it is kept here as the exact   *)
(* fraction num/den.                                                        *)
detect_citations(t) ==
    LET apa_citations == findall(apa_pattern, t)
        mla_citations == findall(mla_pattern, t)
        urls          == findall(url_pattern, t)
    IN  [apa_count          |-> Len(apa_citations),
         mla_count          |-> Len(mla_citations),
         url_count          |-> Len(urls),
         has_recent_sources |-> has_recent_sources_of(apa_citations),
         citation_density   |->
             [num |-> (Len(apa_citations) + Len(mla_citations)) * DensityScale,
              den |-> Max(WordCount(t), 1)],
         total_citations    |-> Len(apa_citations) + Len(mla_citations)]

-----------------------------------------------------------------------------
(* JSON text and JSON values.                                               *)
(*                                                                          *)
(* A JSON text is a sequence of lexemes [k, s]: punctuation, string         *)
(* literals, numbers, the literals null/true/false, and "junk" for any      *)
(* other run of characters (prose, a // comment, a cut-off string).         *)
(* A JSON value is [t, s, items]: t is the Python type json.loads returns   *)
(* (str, num, bool, null, list, dict), s the scalar's text, items the       *)
(* elements of a list or the [key, val] pairs of a dict in insertion order. *)

P(c)    == [k |-> "punct", s |-> c]
StrT(x) == [k |-> "str", s |-> x]
NumT(x) == [k |-> "num", s |-> x]
LitT(x) == [k |-> "lit", s |-> x]
Junk(x) == [k |-> "junk", s |-> x]

JStr(x)    == [t |-> "str", s |-> x, items |-> << >>]
JNum(x)    == [t |-> "num", s |-> x, items |-> << >>]
JNull      == [t |-> "null", s |-> "null", items |-> << >>]
JBool(x)   == [t |-> "bool", s |-> x, items |-> << >>]
JList(vs)  == [t |-> "list", s |-> "", items |-> vs]
JDict(kvs) == [t |-> "dict", s |-> "", items |-> kvs]
KV(key, val) == [key |-> key, val |-> val]

(* json.dumps                                                               *)
RECURSIVE dumps(_)
RECURSIVE DumpsItems(_, _)
DumpsItems(items, isDict) ==
    IF items = << >> THEN << >>
    ELSE LET h   == Head(items)
             one == IF isDict THEN <<StrT(h.key), P(":")>> \o dumps(h.val)
                    ELSE dumps(h)
         IN  IF Len(items) = 1 THEN one
             ELSE one \o <<P(",")>> \o DumpsItems(Tail(items), isDict)

dumps(v) ==
    CASE v.t = "str"  -> <<StrT(v.s)>>
      [] v.t = "num"  -> <<NumT(v.s)>>
      [] v.t = "null" -> <<LitT("null")>>
      [] v.t = "bool" -> <<LitT(v.s)>>
      [] v.t = "list" -> <<P("[")>> \o DumpsItems(v.items, FALSE) \o <<P("]")>>
      [] v.t = "dict" -> <<P("{")>> \o DumpsItems(v.items, TRUE) \o <<P("}")>>

(* dict[key] = val: an existing key keeps its place and takes the value.    *)
DictSet(kvs, key, val) ==
    IF \E i \in 1..Len(kvs) : kvs[i].key = key
    THEN [i \in 1..Len(kvs) |-> IF kvs[i].key = key THEN KV(key, val) ELSE kvs[i]]
    ELSE Append(kvs, KV(key, val))

HasKey(d, key) == \E i \in 1..Len(d.items) : d.items[i].key = key

Lookup(d, key) == d.items[CHOOSE i \in 1..Len(d.items) : d.items[i].key = key].val

(* dict.get(key, default)                                                   *)
get(d, key, default) == IF HasKey(d, key) THEN Lookup(d, key) ELSE default

(* json.loads, as a recursive-descent parser.  Each parser returns          *)
(* [ok, val, next]: whether a value was read at position i, the value, and  *)
(* the position after it.                                                   *)
ParseFail == [ok |-> FALSE, val |-> JNull, next |-> 0]
ParseOk(v, n) == [ok |-> TRUE, val |-> v, next |-> n]

IsPunct(toks, i, c) == i <= Len(toks) /\ toks[i] = P(c)

RECURSIVE ParseValue(_, _)
RECURSIVE ParseElems(_, _, _)
RECURSIVE ParseMembers(_, _, _)

ParseElems(toks, i, acc) ==
    LET r == ParseValue(toks, i)
    IN  IF ~r.ok THEN ParseFail
        ELSE IF IsPunct(toks, r.next, ",")
             THEN ParseElems(toks, r.next + 1, Append(acc, r.val))
        ELSE IF IsPunct(toks, r.next, "]")
             THEN ParseOk(JList(Append(acc, r.val)), r.next + 1)
        ELSE ParseFail

ParseMembers(toks, i, acc) ==
    IF ~(i <= Len(toks) /\ toks[i].k = "str" /\ IsPunct(toks, i + 1, ":"))
    THEN ParseFail
    ELSE LET r == ParseValue(toks, i + 2)
         IN  IF ~r.ok THEN ParseFail
             ELSE IF IsPunct(toks, r.next, ",")
                  THEN ParseMembers(toks, r.next + 1, DictSet(acc, toks[i].s, r.val))
             ELSE IF IsPunct(toks, r.next, "}")
                  THEN ParseOk(JDict(DictSet(acc, toks[i].s, r.val)), r.next + 1)
             ELSE ParseFail

ParseValue(toks, i) ==
    IF i > Len(toks) THEN ParseFail
    ELSE CASE toks[i].k = "str" -> ParseOk(JStr(toks[i].s), i + 1)
           [] toks[i].k = "num" -> ParseOk(JNum(toks[i].s), i + 1)
           [] toks[i].k = "lit" ->
                  IF toks[i].s = "null" THEN ParseOk(JNull, i + 1)
                  ELSE ParseOk(JBool(toks[i].s), i + 1)
           [] toks[i] = P("[") ->
                  IF IsPunct(toks, i + 1, "]") THEN ParseOk(JList(<< >>), i + 2)
                  ELSE ParseElems(toks, i + 1, << >>)
           [] toks[i] = P("{") ->
                  IF IsPunct(toks, i + 1, "}") THEN ParseOk(JDict(<< >>), i + 2)
                  ELSE ParseMembers(toks, i + 1, << >>)
           [] OTHER -> ParseFail

(* json.loads raises unless one value spans the whole text.                 *)
loads(toks) ==
    LET r == ParseValue(toks, 1)
    IN  IF r.ok /\ r.next = Len(toks) + 1 THEN r ELSE ParseFail

(* bool(v) for a JSON value.                                                *)
Truthy(v) ==
    CASE v.t = "str"  -> v.s # ""
      [] v.t = "num"  -> v.s # "0"
      [] v.t = "null" -> FALSE
      [] v.t = "bool" -> v.s = "true"
      [] v.t = "list" -> v.items # << >>
      [] v.t = "dict" -> v.items # << >>

-----------------------------------------------------------------------------
(* The Completion Service and the two dispatchers.                          *)
(*                                                                          *)
(* openai.ChatCompletion.create either returns a response or raises.  An    *)
(* outcome is [kind, body, err]: "content" (the response carries the text   *)
(* body), "no_choices" (a response from which response["choices"][0]        *)
(* ["message"]["content"] cannot be read) or "raise" (create raised err).   *)

Content(b) == [kind |-> "content", body |-> b, err |-> ""]
NoChoices  == [kind |-> "no_choices", body |-> << >>,
               err |-> "IndexError: list index out of range"]
Raises(e)  == [kind |-> "raise", body |-> << >>, err |-> e]

NoKey == "None"
MissingKeyError == "AuthenticationError: No API key provided"
MissingKeyOutcome == Raises(MissingKeyError)

Returned(v) == [value |-> v, raised |-> ""]
Raised(e)   == [value |-> << >>, raised |-> e]

QA(q, p) == JDict(<<KV("question", JStr(q)), KV("purpose", JStr(p))>>)

(* The dict generate_socratic_questions serialises when the call fails.     *)
ErrorFallbackQuestions ==
    JDict(<<
      KV("questions", JList(<<
        QA("What is the main argument you're trying to make in this piece?",
           "Helps identify thesis clarity"),
        QA("Who is your intended audience and how does that shape your word choices?",
           "Develops audience awareness"),
        QA("What evidence best supports your strongest point?",
           "Encourages critical evaluation of support")>>)),
      KV("reflection_prompt",
         JStr("How well does this piece achieve what you set out to accomplish?"))>>)

ErrorFallbackFeedback ==
    <<Junk("I notice you're working on incorporating sources into your writing. Consider how each source specifically supports your main argument and whether you're explaining the connection clearly for your readers.")>>

SocraticRequest(t, focus_area) ==
    [fn |-> "generate_socratic_questions", model |-> "gpt-4",
     focus |-> focus_area, context |-> << >>, user_text |-> t,
     temperature |-> "0.7", max_tokens |-> 600]

CitationRequest(t, citation_data) ==
    [fn |-> "analyze_citations_with_ai", model |-> "gpt-4",
     focus |-> "",
     context |-> <<[total_citations    |-> citation_data.total_citations,
                    apa_count          |-> citation_data.apa_count,
                    mla_count          |-> citation_data.mla_count,
                    url_count          |-> citation_data.url_count,
                    has_recent_sources |-> citation_data.has_recent_sources]>>,
     user_text |-> t, temperature |-> "0.6", max_tokens |-> 300]

(* The bug of a narrow handler,  except openai.error.OpenAIError : the      *)
(* error of reading a response without choices leaves the dispatcher.       *)
generate_socratic_questions_narrow_except(t, focus_area, outcome) ==
    IF outcome.kind = "content" THEN Returned(outcome.body)
    ELSE IF outcome.kind = "raise" THEN Returned(dumps(ErrorFallbackQuestions))
    ELSE Raised(outcome.err)

(* try: create(...); return response["choices"][0]["message"]["content"]    *)
(* except Exception: return json.dumps({...})                               *)
generate_socratic_questions(t, focus_area, outcome) ==
    IF outcome.kind = "content" THEN Returned(outcome.body)
    ELSE Returned(dumps(ErrorFallbackQuestions))

(* The bug of returning the exception's text:  return f"Error: {e}"       *)
analyze_citations_with_ai_leaks(t, citation_data, outcome) ==
    IF outcome.kind = "content" THEN Returned(outcome.body)
    ELSE Returned(<<Junk("Error analyzing citations: "), Junk(outcome.err)>>)

analyze_citations_with_ai(t, citation_data, outcome) ==
    IF outcome.kind = "content" THEN Returned(outcome.body)
    ELSE Returned(ErrorFallbackFeedback)

-----------------------------------------------------------------------------
(* st.session_state                                                         *)

EmptyDict == [k \in {} |-> FALSE]

Put(d, key, val) ==
    [k \in (DOMAIN d) \cup {key} |-> IF k = key THEN val ELSE d[k]]

Has(d, key) == key \in DOMAIN d

(* if 'analysis_complete' not in st.session_state: ... = False              *)
InitSession(sess) ==
    IF Has(sess, "analysis_complete") THEN sess
    ELSE Put(sess, "analysis_complete", FALSE)

-----------------------------------------------------------------------------
(* The display step.                                                        *)

ParseFallbackQuestions ==
    JList(<<
      QA("What is the strongest part of your argument and why?",
         "Identifies areas of strength"),
      QA("Where might readers need more explanation or evidence?",
         "Highlights gaps in support"),
      QA("How does this piece serve your reader's needs?",
         "Develops audience awareness")>>)

ParseFallbackReflection ==
    JStr("What would you change if you were writing this for a different audience?")

(* for i, q in enumerate(questions, 1): q['question'] ... q['purpose']      *)
(* The entries rendered before the loop ended, and the exception that      *)
(* ended it ("" when it ran to the end).                                    *)
RECURSIVE RenderItems(_, _)
RenderItems(items, acc) ==
    IF items = << >> THEN [entries |-> acc, error |-> ""]
    ELSE LET q == Head(items)
         IN  IF q.t # "dict" THEN [entries |-> acc, error |-> "TypeError"]
             ELSE IF ~HasKey(q, "question")
                  THEN [entries |-> acc, error |-> "KeyError: 'question'"]
             ELSE IF ~HasKey(q, "purpose")
                  THEN [entries |-> acc, error |-> "KeyError: 'purpose'"]
             ELSE RenderItems(Tail(items),
                      Append(acc, [question |-> Lookup(q, "question"),
                                   purpose  |-> Lookup(q, "purpose")]))

(* What iterating a JSON value yields.  A list yields its elements, a dict  *)
(* its keys, a str its characters (each a str: as the contents of a string  *)
(* are not modelled, a non-empty string yields one str element); the other  *)
(* types are not iterable.                                                  *)
Iterable(v) == v.t \in {"list", "dict", "str"}

Iterate(v) ==
    CASE v.t = "list" -> v.items
      [] v.t = "dict" -> [i \in 1..Len(v.items) |-> JStr(v.items[i].key)]
      [] v.t = "str"  -> IF v.s = "" THEN << >> ELSE <<JStr(v.s)>>
      [] OTHER        -> << >>

(* The bug of rendering  questions[:3] .                                    *)
RenderQuestions_first_three(questions) ==
    IF ~Iterable(questions) THEN [entries |-> << >>, error |-> "TypeError"]
    ELSE LET items == Iterate(questions)
         IN  RenderItems(SubSeq(items, 1, IF Len(items) < 3 THEN Len(items) ELSE 3),
                         << >>)

RenderQuestions(questions) ==
    IF ~Iterable(questions) THEN [entries |-> << >>, error |-> "TypeError"]
    ELSE RenderItems(Iterate(questions), << >>)

NotRendered ==
    [rendered |-> FALSE, questions |-> << >>, reflection |-> << >>,
     citations |-> << >>, error |-> "", reset_button |-> FALSE,
     warning |-> FALSE]

(* try: json.loads(...); .get("questions", []); .get("reflection_prompt","")*)
(* except: the fixed questions and reflection prompt.                       *)
ParseQuestions(sess) ==
    LET parsed == IF Has(sess, "questions_data")
                  THEN loads(sess["questions_data"]) ELSE ParseFail
    IN  IF parsed.ok /\ parsed.val.t = "dict"
        THEN [questions         |-> get(parsed.val, "questions", JList(<< >>)),
              reflection_prompt |-> get(parsed.val, "reflection_prompt", JStr(""))]
        ELSE [questions         |-> ParseFallbackQuestions,
              reflection_prompt |-> ParseFallbackReflection]

(* if st.session_state.analysis_complete: ... up to the reset button.       *)
DisplayResults(sess) ==
    IF ~sess["analysis_complete"] THEN NotRendered
    ELSE LET pq   == ParseQuestions(sess)
             loop == RenderQuestions(pq.questions)
             page == [NotRendered EXCEPT !.rendered = TRUE,
                                         !.questions = loop.entries]
         IN  IF loop.error # "" THEN [page EXCEPT !.error = loop.error]
             ELSE LET withRefl ==
                          [page EXCEPT !.reflection =
                               IF Truthy(pq.reflection_prompt)
                               THEN <<pq.reflection_prompt>> ELSE << >>]
                  IN  IF ~Has(sess, "citation_data") \/ ~Has(sess, "citation_feedback")
                      THEN [withRefl EXCEPT !.error = "AttributeError"]
                      ELSE [withRefl EXCEPT
                              !.citations =
                                 <<[total    |-> sess["citation_data"].total_citations,
                                    urls     |-> sess["citation_data"].url_count,
                                    recent   |-> IF sess["citation_data"].has_recent_sources
                                                 THEN "Yes" ELSE "Check dates",
                                    feedback |-> sess["citation_feedback"]]>>,
                              !.reset_button = TRUE]

-----------------------------------------------------------------------------
(* The "Start Guided Analysis" handler.                                     *)

(* The bug of keeping a citation feedback that is already stored           *)
(* (setdefault in place of assignment).                                     *)
StoreResults_keeps_feedback(sess, questions_response, citation_feedback, citation_data) ==
    Put(Put(Put(Put(sess, "analysis_complete", TRUE),
                "questions_data", questions_response),
            "citation_feedback",
            IF Has(sess, "citation_feedback") THEN sess["citation_feedback"]
            ELSE citation_feedback),
        "citation_data", citation_data)

(* The bug of not storing citation_data.                                    *)
StoreResults_forgets_citation_data(sess, questions_response, citation_feedback, citation_data) ==
    Put(Put(Put(sess, "analysis_complete", TRUE),
            "questions_data", questions_response),
        "citation_feedback", citation_feedback)

StoreResults(sess, questions_response, citation_feedback, citation_data) ==
    Put(Put(Put(Put(sess, "analysis_complete", TRUE),
                "questions_data", questions_response),
            "citation_feedback", citation_feedback),
        "citation_data", citation_data)

(* The bug of clearing the displayed analysis when the draft is rejected.   *)
RejectDraft_clears_analysis(sess) ==
    [session |-> Put(sess, "analysis_complete", FALSE), calls |-> << >>,
     warning |-> TRUE, error |-> ""]

(* st.warning("Please enter some text to analyze.")                         *)
RejectDraft(sess) ==
    [session |-> sess, calls |-> << >>, warning |-> TRUE, error |-> ""]

Call(req, outcome) == [request |-> req, outcome |-> outcome]

(* The session state after the handler, the calls it attempted, whether it  *)
(* warned, and the exception that left it ("" for none).                    *)
StartHandler(sess, user_input, focus, qOut, cOut) ==
    IF strip(user_input) = << >>
    THEN RejectDraft(sess)
    ELSE LET citation_data      == detect_citations(user_input)
             questions_response == generate_socratic_questions(user_input, focus, qOut)
             citation_feedback  == analyze_citations_with_ai(user_input, citation_data, cOut)
             call1 == Call(SocraticRequest(user_input, focus), qOut)
             call2 == Call(CitationRequest(user_input, citation_data), cOut)
         IN  IF questions_response.raised # ""
             THEN [session |-> sess, calls |-> <<call1>>, warning |-> FALSE,
                   error |-> questions_response.raised]
             ELSE IF citation_feedback.raised # ""
             THEN [session |-> sess, calls |-> <<call1, call2>>, warning |-> FALSE,
                   error |-> citation_feedback.raised]
             ELSE [session |-> StoreResults(sess, questions_response.value,
                                            citation_feedback.value, citation_data),
                   calls |-> <<call1, call2>>, warning |-> FALSE, error |-> ""]

-----------------------------------------------------------------------------
(* Inputs.                                                                  *)

MaxFrags == 4
MaxQuestions == 4

(* Pieces of draft text: typing up to MaxFrags of them in any order gives   *)
(* citations, near misses and plain text.                                   *)
Frags ==
    {<<"(", "a">>,
     <<",", "b">>,
     <<",", " ", "2", "0", "2", "0", ")">>,
     <<",", "1", "9", "9", "9", ")">>,
     <<" ", "4", "5", ")">>,
     <<"(", "a", " ", "4", "5", ")">>,
     <<" ">>,
     <<"h", "t", "t", "p", ":", "/", "/">>,
     <<"h", "t", "t", "p", "s", ":", "/", "/", "x">>,
     <<"2", "0", "2">>,
     <<")">>}

RECURSIVE TextsOf(_)
TextsOf(n) ==
    IF n = 0 THEN {<< >>}
    ELSE LET shorter == TextsOf(n - 1)
         IN  shorter \cup {t \o f : t \in shorter, f \in Frags}

Texts == TextsOf(MaxFrags)

BlankDrafts ==
    {<<>>,
     <<" ">>,
     <<"\n", " ", "\t">>}

WrittenDrafts ==
    {<<"a", " ", "b">>,
     <<" ", "(", "a", ",", " ", "2", "0", "2", "0", ")", "\n">>,
     <<"(", "a", " ", "4", ")", " ", "h", "t", "t", "p", ":", "/", "/", "x">>}

(* The options of the "Focus Area" selectbox.                               *)
FocusAreas ==
    {"Argument Development", "Evidence & Citations", "Clarity & Organization",
     "Audience Awareness", "Critical Thinking"}

QTexts == <<"Q1", "Q2", "Q3", "Q4", "Q5", "Q6">>
PTexts == <<"P1", "P2", "P3", "P4", "P5", "P6">>

Questions(n) == JList([i \in 1..n |-> QA(QTexts[i], PTexts[i])])

Payload(questions, reflection) ==
    JDict(<<KV("questions", questions), KV("reflection_prompt", reflection)>>)

(* What the service may answer to the questions request: the structure the  *)
(* prompt asks for, with 0..MaxQuestions questions and a reflection prompt  *)
(* that may be empty.                                                       *)
StructuredAnswers ==
    {Payload(Questions(n), JStr(r)) : n \in 0..MaxQuestions, r \in {"R", ""}}

(* Other JSON values the service may answer with.                           *)
OddAnswers ==
    { JDict(<< >>), JNull, JNum("3"), JStr("Here are some questions"),
      JBool("true"), JList(<< >>), Questions(2),
      JDict(<<KV("questions", Questions(2))>>),
      JDict(<<KV("reflection_prompt", JStr("R"))>>),
      JDict(<<KV("reflection_prompt", JStr("R")), KV("questions", Questions(2))>>),
      JDict(<<KV("questions", Questions(1)), KV("reflection_prompt", JStr("R")),
              KV("note", JStr("extra"))>>),
      Payload(JStr("Q1"), JStr("R")), Payload(JStr(""), JStr("R")),
      Payload(JNum("3"), JStr("R")), Payload(JNull, JStr("R")),
      Payload(JBool("false"), JStr("R")),
      Payload(JDict(<< >>), JStr("R")), Payload(QA("Q1", "P1"), JStr("R")),
      Payload(JList(<<JStr("Q1")>>), JStr("R")),
      Payload(JList(<<QA("Q1", "P1"), JStr("Q2")>>), JStr("R")),
      Payload(JList(<<JList(<<JStr("Q1"), JStr("P1")>>)>>), JStr("R")),
      Payload(JList(<<JNull>>), JStr("R")),
      Payload(JList(<<JDict(<<KV("question", JStr("Q1"))>>)>>), JStr("R")),
      Payload(JList(<<JDict(<<KV("purpose", JStr("P1"))>>)>>), JStr("R")),
      Payload(JList(<<QA("Q1", "P1"), JDict(<<KV("question", JStr("Q2"))>>)>>), JStr("R")),
      Payload(JList(<<JDict(<<KV("question", JNum("1")), KV("purpose", JNull)>>)>>),
              JStr("R")),
      Payload(Questions(2), JNull), Payload(Questions(2), JNum("0")),
      Payload(Questions(2), JNum("7")), Payload(Questions(2), JBool("false")),
      Payload(Questions(2), JList(<< >>)), Payload(Questions(2), JList(<<JStr("R")>>)),
      Payload(Questions(2), JDict(<< >>)) }

FullAnswer == dumps(Payload(Questions(MaxQuestions), JStr("R")))

(* A reply cut off by max_tokens.                                           *)
CutOffTexts == {SubSeq(FullAnswer, 1, n) : n \in 0..(Len(FullAnswer) - 1)}

(* Replies that are not one JSON text: prose around the JSON, the comment   *)
(* of the prompt's own example, a trailing comma, a repeated key.           *)
BrokenTexts ==
    LET one == dumps(Payload(Questions(1), JStr("R")))
    IN  { <<Junk("Here are your questions:")>> \o one,
          one \o <<Junk("I hope this helps!")>>,
          one \o one,
          <<Junk("I cannot help with that.")>>,
          <<P("{"), StrT("questions"), P(":"), P("["),
            StrT("Q1"), P(","), Junk("// 2-3 more questions"), P("]"), P("}")>>,
          <<P("{"), StrT("questions"), P(":"), P("["), P("]"), P(","), P("}")>>,
          <<P("["), StrT("Q1"), P(","), P("]")>>,
          <<P("{"), StrT("questions"), P(":"), P("["), P("]"), P(","),
            StrT("questions"), P(":"), StrT(""), P(","),
            StrT("reflection_prompt"), P(":"), StrT("R"), P("}")>>,
          <<P("{"), StrT("questions"), P("["), P("]"), P("}")>>,
          <<P("{"), NumT("1"), P(":"), P("["), P("]"), P("}")>> }

QuestionTexts ==
    {dumps(v) : v \in StructuredAnswers \cup OddAnswers}
        \cup CutOffTexts \cup BrokenTexts

(* The replies the whole-application specification draws from.              *)
AppQuestionTexts ==
    { dumps(Payload(Questions(3), JStr("R"))),
      dumps(Payload(JList(<<JDict(<<KV("question", JStr("Q1"))>>)>>), JStr("R"))),
      <<Junk("I cannot help with that.")>> }

FeedbackTexts == {<<Junk("Your sources support the argument well.")>>}

ServiceErrors == {MissingKeyError, "RateLimitError: quota exceeded"}

Failures == {NoChoices} \cup {Raises(e) : e \in ServiceErrors}

QOutcomes == {Content(b) : b \in AppQuestionTexts} \cup Failures
COutcomes == {Content(b) : b \in FeedbackTexts} \cup Failures

UnusedOutcome == Raises("")

-----------------------------------------------------------------------------
(* The script runs.                                                         *)

RunInputs(button, user_input) == [button |-> button, user_input |-> user_input]

Init ==
    /\ text = << >>
    /\ report = << >>
    /\ api_key \in {NoKey, "sk-test"}
    /\ session = EmptyDict
    /\ lastRun = RunInputs("unloaded", << >>)
    /\ calls = << >>
    /\ shown = NotRendered

(* A run in which no button was pressed: the first load, or a rerun after   *)
(* another widget changed.                                                  *)
RunPlain ==
    /\ \E s1 \in {InitSession(session)} :
           /\ session' = s1
           /\ shown' = DisplayResults(s1)
    /\ lastRun' = RunInputs("none", << >>)
    /\ calls' = << >>
    /\ UNCHANGED <<text, report, api_key>>

(* The outcome of a call attempted without a credential.                    *)
OutcomeAllowed(outcome) == api_key = NoKey => outcome = MissingKeyOutcome

(* A run in which "Start Guided Analysis" was pressed.                      *)
RunStart(user_input, focus, qOut, cOut) ==
    /\ lastRun.button # "unloaded"
    /\ \E h \in {StartHandler(InitSession(session), user_input, focus, qOut, cOut)} :
           /\ \A i \in 1..Len(h.calls) : OutcomeAllowed(h.calls[i].outcome)
           /\ session' = h.session
           /\ calls' = h.calls
           /\ shown' = IF h.error # ""
                       THEN [NotRendered EXCEPT !.error = h.error]
                       ELSE [DisplayResults(h.session) EXCEPT !.warning = h.warning]
    /\ lastRun' = RunInputs("start", user_input)
    /\ UNCHANGED <<text, report, api_key>>

(* A run in which "Analyze New Text" was pressed, and the run st.rerun()    *)
(* starts after it.                                                         *)
RunReset ==
    /\ shown.reset_button
    /\ LET s1 == InitSession(session)
           s2 == Put(s1, "analysis_complete", FALSE)
           s3 == InitSession(s2)
       IN  /\ DisplayResults(s1).reset_button
           /\ session' = s3
           /\ shown' = DisplayResults(s3)
    /\ lastRun' = RunInputs("reset", << >>)
    /\ calls' = << >>
    /\ UNCHANGED <<text, report, api_key>>

Next ==
    \/ RunPlain
    \/ \E d \in BlankDrafts, f \in FocusAreas :
           RunStart(d, f, UnusedOutcome, UnusedOutcome)
    \/ \E d \in WrittenDrafts, f \in FocusAreas, q \in QOutcomes, c \in COutcomes :
           RunStart(d, f, q, c)
    \/ RunReset

Spec == Init /\ [][Next]_vars

-----------------------------------------------------------------------------
(* detect_citations on its own: a text is drawn, then analysed.             *)

InitCite ==
    /\ text \in Texts
    /\ report = << >>
    /\ api_key = "sk-test"
    /\ session = EmptyDict
    /\ lastRun = RunInputs("unloaded", << >>)
    /\ calls = << >>
    /\ shown = NotRendered

Analyze ==
    /\ report = << >>
    /\ report' = <<detect_citations(text)>>
    /\ UNCHANGED <<text, api_key, session, lastRun, calls, shown>>

SpecCite == InitCite /\ [][Analyze]_vars

-----------------------------------------------------------------------------
(* The display step on its own: an analysis has just been stored whose      *)
(* questions reply is drawn from QuestionTexts, and the page is rendered.   *)

StoredDraft == <<"(", "a", " ", "4", "5", ")">>

InitDisplay ==
    /\ text = << >>
    /\ report = << >>
    /\ api_key = "sk-test"
    /\ \E b \in QuestionTexts :
          LET h == StartHandler(InitSession(EmptyDict), StoredDraft,
                                "Critical Thinking", Content(b),
                                Content(CHOOSE fb \in FeedbackTexts : TRUE))
          IN  /\ session = h.session
              /\ calls = h.calls
    /\ lastRun = RunInputs("start", StoredDraft)
    /\ shown = NotRendered

SpecDisplay == InitDisplay /\ [][RunPlain]_vars

-----------------------------------------------------------------------------
(* Vocabulary of the properties.                                            *)

IsBlank(s) == \A i \in 1..Len(s) : s[i] \in Whitespace

AllIn(s, S) == \A i \in 1..Len(s) : s[i] \in S

Restrict(d, keys) == [k \in (DOMAIN d) \cap keys |-> d[k]]

ResultKeys == {"questions_data", "citation_feedback", "citation_data"}

(* The latest run was a submission with a non-blank draft.                  *)
Accepted(run) == run.button = "start" /\ ~IsBlank(run.user_input)

(* The latest run was a submission with an empty or whitespace-only draft.  *)
Rejected(run) == run.button = "start" /\ IsBlank(run.user_input)

Failed(call) == call.outcome.kind # "content"

(* The error text e is part of the text v.                                  *)
Mentions(v, e) == \E k \in 1..Len(v) : v[k].s = e

(* Optional whitespace, then one or more letters.                           *)
PaddedName(seg) ==
    \E k \in 0..(Len(seg) - 1) :
        /\ AllIn(SubSeq(seg, 1, k), Whitespace)
        /\ AllIn(SubSeq(seg, k + 1, Len(seg)), AsciiLetters)

(* Optional whitespace, then a four-digit year.                             *)
PaddedYear(seg) ==
    /\ Len(seg) >= YearDigits
    /\ AllIn(SubSeq(seg, 1, Len(seg) - YearDigits), Whitespace)
    /\ AllIn(SubSeq(seg, Len(seg) - YearDigits + 1, Len(seg)), Digits)

(* (Name, Name, ..., 2020): comma-separated names, then a year.             *)
IsApaShaped(s) ==
    LET n == Len(s)
    IN  /\ n >= 2
        /\ s[1] = "("
        /\ s[n] = ")"
        /\ LET commas == {i \in 2..(n - 1) : s[i] = ","}
               stops  == commas \cup {n}
               SegAfter(d) ==
                   LET e == CHOOSE e \in stops :
                                e > d /\ \A f \in stops : f > d => e <= f
                   IN  SubSeq(s, d + 1, e - 1)
           IN  /\ commas # {}
               /\ SegAfter(1) # << >>
               /\ AllIn(SegAfter(1), AsciiLetters)
               /\ \A c \in commas :
                     IF \A d \in commas : d <= c
                     THEN PaddedYear(SegAfter(c))
                     ELSE PaddedName(SegAfter(c))

(* (Name 45): a name, whitespace, a page number.                            *)
IsMlaShaped(s) ==
    LET n == Len(s)
    IN  /\ n >= 5
        /\ s[1] = "("
        /\ s[n] = ")"
        /\ \E a \in 2..(n - 3) : \E b \in (a + 1)..(n - 2) :
              /\ AllIn(SubSeq(s, 2, a), AsciiLetters)
              /\ AllIn(SubSeq(s, a + 1, b), Whitespace)
              /\ AllIn(SubSeq(s, b + 1, n - 1), Digits)

UrlPrefixes ==
    {<<"h", "t", "t", "p", ":", "/", "/">>,
     <<"h", "t", "t", "p", "s", ":", "/", "/">>}

(* http:// or https:// followed by characters up to whitespace.             *)
IsUrlShaped(s) ==
    \E p \in UrlPrefixes :
        /\ Len(s) > Len(p)
        /\ SubSeq(s, 1, Len(p)) = p
        /\ \A i \in (Len(p) + 1)..Len(s) : s[i] \notin Whitespace

NoCitationShapes(t) ==
    \A i \in 1..Len(t) :
        t[i] \in {"(", "h"} =>
            \A j \in i..Len(t) :
                LET s == SubSeq(t, i, j)
                IN  ~(IsApaShaped(s) \/ IsMlaShaped(s) \/ IsUrlShaped(s))

(* The reply is the structure the prompt asks for: an object whose          *)
(* "questions" is a list of objects with a "question" and a "purpose"       *)
(* string, and whose "reflection_prompt" is a string.                       *)
IsQuestionEntry(q) ==
    /\ q.t = "dict"
    /\ HasKey(q, "question") /\ Lookup(q, "question").t = "str"
    /\ HasKey(q, "purpose") /\ Lookup(q, "purpose").t = "str"

IsStructured(v) ==
    /\ v.t = "dict"
    /\ HasKey(v, "questions")
    /\ Lookup(v, "questions").t = "list"
    /\ \A i \in 1..Len(Lookup(v, "questions").items) :
          IsQuestionEntry(Lookup(v, "questions").items[i])
    /\ HasKey(v, "reflection_prompt")
    /\ Lookup(v, "reflection_prompt").t = "str"

WellFormed(toks) == loads(toks).ok /\ IsStructured(loads(toks).val)

(* The entries a structured reply asks to be shown, in its order.           *)
EntriesOf(toks) ==
    LET qs == Lookup(loads(toks).val, "questions").items
    IN  [i \in 1..Len(qs) |-> [question |-> Lookup(qs[i], "question"),
                               purpose  |-> Lookup(qs[i], "purpose")]]

FallbackEntries ==
    [i \in 1..Len(ParseFallbackQuestions.items) |->
        [question |-> Lookup(ParseFallbackQuestions.items[i], "question"),
         purpose  |-> Lookup(ParseFallbackQuestions.items[i], "purpose")]]

-----------------------------------------------------------------------------
(* Properties.                                                              *)

(* C1: whenever a Completion Service call of an accepted submission fails   *)
(* (create raises, or the response has no content to read), both            *)
(* dispatchers still return: the handler stores a non-empty text for the    *)
(* failed call, the error's text is no part of that text, and the error     *)
(* does not leave the handler.                                              *)
C1_DispatchersFailSoft ==
    Accepted(lastRun) =>
        /\ Len(calls) = 2
        /\ ResultKeys \subseteq DOMAIN session
        /\ \A i \in 1..Len(calls) : Failed(calls[i]) => shown.error # calls[i].outcome.err
        /\ Failed(calls[1]) =>
              /\ session["questions_data"] # << >>
              /\ ~Mentions(session["questions_data"], calls[1].outcome.err)
        /\ Failed(calls[2]) =>
              /\ session["citation_feedback"] # << >>
              /\ ~Mentions(session["citation_feedback"], calls[2].outcome.err)

C1_Witness ==
    /\ Accepted(lastRun)
    /\ api_key # NoKey
    /\ Len(calls) = 2
    /\ calls[1].outcome.kind = "raise"
    /\ calls[2].outcome.kind = "no_choices"

(* C2: a submission whose draft is empty or only whitespace attempts no     *)
(* Completion Service call.                                                 *)
C2_NoCallForBlankDraft == Rejected(lastRun) => calls = << >>

C2_Witness ==
    /\ Rejected(lastRun)
    /\ Len(lastRun.user_input) > 1
    /\ shown.warning

(* C3: with the credential absent, no Completion Service call is attempted. *)
C3_MissingCredentialBlocksCalls == api_key = NoKey => calls = << >>

(* C4: a stored questions reply that is not the expected structure is       *)
(* displayed as the three fixed questions and the fixed reflection prompt,  *)
(* and the display step ends without an exception.                          *)
C4_MalformedGetsFallback ==
    (shown.rendered /\ ~WellFormed(session["questions_data"])) =>
        /\ shown.error = ""
        /\ shown.questions = FallbackEntries
        /\ shown.reflection = <<ParseFallbackReflection>>

(* C5, as stated: a well-formed reply with N questions is displayed as      *)
(* exactly those N entries, in order, and exactly one reflection prompt.    *)
C5_WellFormedRoundTrip ==
    (shown.rendered /\ WellFormed(session["questions_data"])) =>
        /\ shown.error = ""
        /\ shown.questions = EntriesOf(session["questions_data"])
        /\ Len(shown.reflection) = 1

(* C5, amended: a well-formed reply with N questions is displayed as        *)
(* exactly those N entries, in order, and its reflection prompt is shown    *)
(* exactly once when it is not the empty string and not at all when it is.  *)
C5_WellFormedRoundTripNonEmpty ==
    (shown.rendered /\ WellFormed(session["questions_data"])) =>
        LET reflection == Lookup(loads(session["questions_data"]).val,
                                 "reflection_prompt")
        IN  /\ shown.error = ""
            /\ shown.questions = EntriesOf(session["questions_data"])
            /\ shown.reflection = IF reflection.s = "" THEN << >> ELSE <<reflection>>

C5_Witness ==
    /\ shown.rendered
    /\ WellFormed(session["questions_data"])
    /\ Len(shown.questions) >= 4
    /\ Len(shown.reflection) = 1

(* C6: in every report, total_citations is apa_count plus mla_count; the    *)
(* URLs are not counted in it.                                              *)
C6_TotalIsApaPlusMla ==
    report # << >> =>
        report[1].total_citations = report[1].apa_count + report[1].mla_count

C6_Witness ==
    /\ report # << >>
    /\ report[1].url_count > 0
    /\ report[1].apa_count > 0
    /\ report[1].mla_count > 0

(* C7: a text with no substring of the APA, MLA or URL shape (the empty     *)
(* text included) has all counts 0 and has_recent_sources false.            *)
C7_NoShapesNoCounts ==
    (report # << >> /\ NoCitationShapes(text)) =>
        /\ report[1].apa_count = 0
        /\ report[1].mla_count = 0
        /\ report[1].url_count = 0
        /\ report[1].total_citations = 0
        /\ report[1].has_recent_sources = FALSE

C7_Witness ==
    /\ report # << >>
    /\ NoCitationShapes(text)
    /\ Contains(text, RecentMarker)
    /\ Contains(text, <<"h", "t", "t", "p", ":", "/", "/">>)
    /\ Contains(text, <<"(", "a">>)

(* C8: an accepted submission stores the questions reply, the citation      *)
(* feedback and the citation report computed in that run, all three, and    *)
(* no other run changes any of them.                                        *)
C8_LastWriteWins ==
    [][IF Accepted(lastRun')
       THEN /\ Len(calls') = 2
            /\ ResultKeys \subseteq DOMAIN session'
            /\ session'["citation_data"] = detect_citations(lastRun'.user_input)
            /\ session'["questions_data"] =
                  IF Failed(calls'[1]) THEN dumps(ErrorFallbackQuestions)
                  ELSE calls'[1].outcome.body
            /\ session'["citation_feedback"] =
                  IF Failed(calls'[2]) THEN ErrorFallbackFeedback
                  ELSE calls'[2].outcome.body
       ELSE Restrict(session', ResultKeys) = Restrict(session, ResultKeys)]_vars

C8_Witness ==
    /\ Accepted(lastRun)
    /\ Len(calls) = 2
    /\ ~Failed(calls[1])
    /\ Failed(calls[2])
    /\ session["citation_data"].total_citations > 0

(* C9: whenever analysis_complete is true, questions_data,                  *)
(* citation_feedback and citation_data are in the session state, and the    *)
(* display step never fails on a missing field.                             *)
C9_ResultsPresentWhenComplete ==
    (Has(session, "analysis_complete") /\ session["analysis_complete"]) =>
        /\ ResultKeys \subseteq DOMAIN session
        /\ shown.error # "AttributeError"

C9_Witness ==
    /\ Has(session, "analysis_complete")
    /\ session["analysis_complete"]
    /\ lastRun.button = "none"
    /\ shown.reset_button

(* C10: a rejected submission leaves analysis_complete and the three        *)
(* stored result fields as they were, and the page shows what it showed     *)
(* before, with the warning added.                                          *)
C10_RejectedChangesNothing ==
    [][Rejected(lastRun') =>
          /\ Restrict(session', ResultKeys \cup {"analysis_complete"})
                = Restrict(session, ResultKeys \cup {"analysis_complete"})
          /\ shown' = [shown EXCEPT !.warning = TRUE]]_vars

C10_Witness ==
    /\ Rejected(lastRun)
    /\ session["analysis_complete"]
    /\ shown.warning
    /\ shown.reset_button
    /\ Len(shown.questions) > 0

====
